---- MODULE Spec2Model ----
(***************************************************************************)
(* Model of day14.rs: the 36-symbol mask (Masked::from_str / Display), the *)
(* line parser (parse_line), the Machine (store / sum_values), the two     *)
(* passes (part1, part2) and expand_addresses.                             *)
(*                                                                         *)
(* Numbers are usize values.  The source has a 36-symbol mask inside a     *)
(* 64-bit usize; the model keeps the same shape with MaskBits mask symbols *)
(* inside a word of MaskBits + HighBits bits, so that a whole expansion    *)
(* (2^MaskBits addresses under the initial mask) can be enumerated.        *)
(* Strings are sequences of one-character strings.                         *)
(***************************************************************************)
EXTENDS Integers, Sequences, FiniteSets, TLC

\* Number of mask symbols (36 in day14.rs: "35 - i", "0..36", "{36}").
MaskBits == 7
\* Bits of a usize above the mask symbols (64 - 36 = 28 in day14.rs).
HighBits == 20
\* Longest generated input file, in lines.
MaxLines == 3
\* Longest sequence of direct Machine::store calls.
MaxStores == 3

WordBits == MaskBits + HighBits
UsizeMax == 2^WordBits - 1

VARIABLES input, pc, commands, pos, machine, part1_result, part2_result, arg, ret

vars == <<input, pc, commands, pos, machine, part1_result, part2_result, arg, ret>>

None == [tag |-> "None"]

----------------------------------------------------------------------------
(* usize bit operations *)

RECURSIVE BitAnd(_, _)
BitAnd(a, b) ==
    IF a = 0 \/ b = 0 THEN 0
    ELSE (IF a % 2 = 1 /\ b % 2 = 1 THEN 1 ELSE 0) + 2 * BitAnd(a \div 2, b \div 2)

RECURSIVE BitOr(_, _)
BitOr(a, b) ==
    IF a = 0 THEN b
    ELSE IF b = 0 THEN a
    ELSE (IF a % 2 = 1 \/ b % 2 = 1 THEN 1 ELSE 0) + 2 * BitOr(a \div 2, b \div 2)

\* !a on a usize
BitNot(a) == UsizeMax - a

\* 1 << n
Shl1(n) == 2^n

----------------------------------------------------------------------------
(* Masked: from_str and Display *)

\* one iteration of "for (i, bit) in s.chars().enumerate()", i counted from 0.
\* x = 1 << (35 - i) is computed before the symbol is looked at.  Past the
\* last mask position 35 - i underflows: with overflow checks on (checks) the
\* thread panics, whatever the symbol; without them the difference wraps and
\* the shift takes it modulo the word width, so x is a bit counted down from
\* the top of the word.
RECURSIVE from_str_loop(_, _, _, _, _)
from_str_loop(s, i, mask, value, checks) ==
    IF i >= Len(s) THEN [tag |-> "Ok", mask |-> mask, value |-> value]
    ELSE IF checks /\ i > MaskBits - 1 THEN [tag |-> "Panic"]
    ELSE LET x == Shl1(((MaskBits - 1) - i) % WordBits)
             bit == s[i + 1]
         IN CASE bit = "1" -> from_str_loop(s, i + 1, mask, BitOr(value, x), checks)
              [] bit = "0" -> from_str_loop(s, i + 1, mask, value, checks)
              [] bit = "X" -> from_str_loop(s, i + 1, BitOr(mask, x), value, checks)
              [] OTHER -> [tag |-> "Err", char |-> bit]

\* Mutant of from_str: the 'X' arm sets the bit in value as well as in mask.
from_str_x_sets_value(s) ==
    {IF r.tag = "Ok" THEN [r EXCEPT !.value = BitOr(r.value, r.mask)] ELSE r :
        r \in {from_str_loop(s, 0, 0, 0, checks) : checks \in BOOLEAN}}

\* Masked::from_str: the outcomes a build can give, one and the same for both
\* builds on a string of at most 36 symbols
from_str(s) == {from_str_loop(s, 0, 0, 0, checks) : checks \in BOOLEAN}

\* Mutant of fmt: the .rev() is missing, the j-th character is bit j - 1.
fmt_no_rev(self) ==
    [j \in 1..MaskBits |->
        LET i == j - 1
        IN IF BitAnd(self.mask, Shl1(i)) # 0 THEN "X"
           ELSE IF BitAnd(self.value, Shl1(i)) # 0 THEN "1"
           ELSE "0"]

\* (0..36).rev().map(..).collect(): the j-th character is bit MaskBits - j
fmt(self) ==
    [j \in 1..MaskBits |->
        LET i == MaskBits - j
        IN IF BitAnd(self.mask, Shl1(i)) # 0 THEN "X"
           ELSE IF BitAnd(self.value, Shl1(i)) # 0 THEN "1"
           ELSE "0"]

----------------------------------------------------------------------------
(* parse_line *)

Digits == <<"0", "1", "2", "3", "4", "5", "6", "7", "8", "9">>
IsDigit(c) == \E d \in 1..10 : Digits[d] = c
DigitVal(c) == (CHOOSE d \in 1..10 : Digits[d] = c) - 1

MaskPrefix == <<"m", "a", "s", "k", " ", "=", " ">>
MemOpen == <<"m", "e", "m", "[">>
MemMid == <<"]", " ", "=", " ">>

NoMatch == [matched |-> FALSE, groups |-> <<>>]

\* ^mask = ([10X]{36})$
SET_MASK_captures(s) ==
    IF /\ Len(s) = Len(MaskPrefix) + MaskBits
       /\ SubSeq(s, 1, Len(MaskPrefix)) = MaskPrefix
       /\ \A j \in (Len(MaskPrefix) + 1)..Len(s) : s[j] \in {"1", "0", "X"}
    THEN [matched |-> TRUE, groups |-> <<SubSeq(s, Len(MaskPrefix) + 1, Len(s))>>]
    ELSE NoMatch

\* first index at or after j that does not hold a digit: the end of [0-9]+
RECURSIVE DigitRunEnd(_, _)
DigitRunEnd(s, j) ==
    IF j <= Len(s) /\ IsDigit(s[j]) THEN DigitRunEnd(s, j + 1) ELSE j

\* ^mem\[([0-9]+)\] = ([0-9]+)$
ASSIGN_captures(s) ==
    LET a0 == Len(MemOpen) + 1
        a1 == DigitRunEnd(s, a0)
        v0 == a1 + Len(MemMid)
        v1 == DigitRunEnd(s, v0)
    IN IF /\ Len(s) >= Len(MemOpen)
          /\ SubSeq(s, 1, Len(MemOpen)) = MemOpen
          /\ a1 > a0
          /\ Len(s) >= v0 - 1
          /\ SubSeq(s, a1, v0 - 1) = MemMid
          /\ v1 > v0
          /\ v1 = Len(s) + 1
       THEN [matched |-> TRUE, groups |-> <<SubSeq(s, a0, a1 - 1), SubSeq(s, v0, v1 - 1)>>]
       ELSE NoMatch

\* str::parse::<usize>() on a string of decimal digits: checked multiply and
\* add, Err(PosOverflow) when the number does not fit a usize
RECURSIVE parse_usize_loop(_, _, _)
parse_usize_loop(d, j, acc) ==
    IF j > Len(d) THEN [tag |-> "Ok", n |-> acc]
    ELSE IF acc > (UsizeMax - DigitVal(d[j])) \div 10 THEN [tag |-> "Err", n |-> 0]
    ELSE parse_usize_loop(d, j + 1, acc * 10 + DigitVal(d[j]))

parse_usize(d) == parse_usize_loop(d, 1, 0)

SetMask(m) == [kind |-> "SetMask", mask |-> m]
Assign(a, v) == [kind |-> "Assign", address |-> a, value |-> v]

\* The results parse_line can give: "Ok" with a Command, "Err" with the anyhow
\* message's line, or "Panic" when an unwrap() of a failed usize parse (or a
\* panic of from_str) aborts the thread
parse_line(s) ==
    LET sm == SET_MASK_captures(s)
        as == ASSIGN_captures(s)
    IN IF sm.matched
       THEN {CASE m.tag = "Ok" -> [tag |-> "Ok", cmd |-> SetMask([mask |-> m.mask, value |-> m.value])]
               [] m.tag = "Err" -> [tag |-> "Err", line |-> <<m.char>>]
               [] OTHER -> [tag |-> "Panic"] :
             m \in from_str(sm.groups[1])}
       ELSE IF as.matched
       THEN LET address == parse_usize(as.groups[1])
                value == parse_usize(as.groups[2])
            IN IF address.tag # "Ok" \/ value.tag # "Ok"
               THEN {[tag |-> "Panic"]}
               ELSE {[tag |-> "Ok", cmd |-> Assign(address.n, value.n)]}
       ELSE {[tag |-> "Err", line |-> s]}

----------------------------------------------------------------------------
(* Machine *)

EmptyMemory == [a \in {} |-> 0]

\* Machine::new: mask !0, value 0, empty memory
Machine_new == [mask |-> [mask |-> BitNot(0), value |-> 0], memory |-> EmptyMemory]

\* Mutant of store: entry(key).or_insert(value), an existing entry is kept.
store_keeps_old(self, key, value) ==
    [self EXCEPT !.memory =
        [a \in (DOMAIN self.memory) \cup {key} |->
            IF a \in DOMAIN self.memory THEN self.memory[a] ELSE value]]

\* HashMap::insert
store(self, key, value) ==
    [self EXCEPT !.memory =
        [a \in (DOMAIN self.memory) \cup {key} |-> IF a = key THEN value ELSE self.memory[a]]]

\* The sum of f over the keys S, all below 2^b.  The keys are split on bit
\* b - 1, so that the recursion is WordBits deep whatever the number of keys;
\* addition commutes, so the order of a HashMap's values is immaterial.
RECURSIVE SumOver(_, _, _)
SumOver(f, S, b) ==
    IF S = {} THEN 0
    ELSE IF b = 0 THEN f[CHOOSE a \in S : TRUE]
    ELSE LET hi == {a \in S : (a \div 2^(b - 1)) % 2 = 1}
         IN SumOver(f, hi, b - 1) + SumOver(f, S \ hi, b - 1)

\* Mutant of sum_values: into_keys() in place of into_values().
sum_values_of_keys(self) ==
    LET total == SumOver([a \in DOMAIN self.memory |-> a], DOMAIN self.memory, WordBits)
    IN IF total <= UsizeMax
       THEN {[tag |-> "Ok", n |-> total]}
       ELSE {[tag |-> "Ok", n |-> total % (UsizeMax + 1)], [tag |-> "Panic", n |-> 0]}

\* into_values().sum() on usize: the outcomes a build can give.  A total that
\* fits is returned; one that does not panics (overflow checks on) or wraps.
sum_values(self) ==
    LET total == SumOver(self.memory, DOMAIN self.memory, WordBits)
    IN IF total <= UsizeMax
       THEN {[tag |-> "Ok", n |-> total]}
       ELSE {[tag |-> "Ok", n |-> total % (UsizeMax + 1)], [tag |-> "Panic", n |-> 0]}

----------------------------------------------------------------------------
(* part1 *)

\* Mutant of part1_value: value & (not_zeros | ones), the forced ones are lost.
part1_value_and_binds_last(m, value) ==
    LET ones == BitAnd(BitNot(m.mask), m.value)
        not_zeros == BitOr(m.mask, m.value)
    IN BitAnd(value, BitOr(not_zeros, ones))

\* body of the Assign arm of part1: the value written
part1_value(m, value) ==
    LET ones == BitAnd(BitNot(m.mask), m.value)
        not_zeros == BitOr(m.mask, m.value)
    IN BitOr(BitAnd(value, not_zeros), ones)

----------------------------------------------------------------------------
(* part2 *)

\* Mutant of Double: address ^ x in place of address & !x.
Double_xor(result, x) ==
    [j \in 1..(2 * Len(result)) |->
        LET address == result[(j + 1) \div 2]
        IN IF j % 2 = 1 THEN BitOr(address, x)
           ELSE IF BitAnd(address, x) # 0 THEN address - x ELSE address + x]

\* the inner loop of expand_addresses: every address, bit x set then cleared
Double(result, x) ==
    [j \in 1..(2 * Len(result)) |->
        LET address == result[(j + 1) \div 2]
        IN IF j % 2 = 1 THEN BitOr(address, x) ELSE BitAnd(address, BitNot(x))]

RECURSIVE expand_loop(_, _, _)
expand_loop(mask, result, i) ==
    IF i >= MaskBits THEN result
    ELSE LET x == Shl1(i)
         IN IF BitAnd(mask, x) # 0
            THEN expand_loop(mask, Double(result, x), i + 1)
            ELSE expand_loop(mask, result, i + 1)

\* Mutant of expand_addresses: the loop runs over 1..36, bit 0 never floats.
expand_addresses_from_1(mask, address) == expand_loop(mask, <<address>>, 1)

expand_addresses(mask, address) == expand_loop(mask, <<address>>, 0)

\* "for address in expand_addresses(..) { machine.store(address, *value) }":
\* every address of the list is inserted with the same value, so the map after
\* the loop holds value at each of them and its old entries elsewhere
store_each(self, addresses, value) ==
    LET written == {addresses[j] : j \in 1..Len(addresses)}
    IN [self EXCEPT !.memory =
           [a \in (DOMAIN self.memory) \cup written |->
               IF a \in written THEN value ELSE self.memory[a]]]

\* Mutant of part2_assign: the address is not ORed with the mask's value.
part2_assign_no_ones(self, address, value) ==
    store_each(self, expand_addresses(self.mask.mask, address), value)

part2_assign(self, address, value) ==
    LET base == BitOr(address, self.mask.value)
    IN store_each(self, expand_addresses(self.mask.mask, base), value)

----------------------------------------------------------------------------
(* Inputs *)

Pad(c, n) == [j \in 1..n |-> c]

RECURSIVE Decimal(_)
Decimal(n) == IF n < 10 THEN <<Digits[n + 1]>> ELSE Decimal(n \div 10) \o <<Digits[(n % 10) + 1]>>

MaskLine(body) == MaskPrefix \o body
MemLine(a, v) == MemOpen \o a \o MemMid \o v

\* XXXXXXXXXXXXXXXXXXXXXXXXXXXXX1XXXX0X, 000000000000000000000000000000X1001X and
\* 00000000000000000000000000000000X0XX, cut to the MaskBits low symbols
MaskA == Pad("X", MaskBits - 7) \o <<"1", "X", "X", "X", "X", "0", "X">>
MaskB1 == Pad("0", MaskBits - 6) \o <<"X", "1", "0", "0", "1", "X">>
MaskB2 == Pad("0", MaskBits - 4) \o <<"X", "0", "X", "X">>

ScenarioA ==
    << MaskLine(MaskA), MemLine(<<"8">>, <<"1", "1">>),
       MemLine(<<"7">>, <<"1", "0", "1">>), MemLine(<<"8">>, <<"0">>) >>

ScenarioB ==
    << MaskLine(MaskB1), MemLine(<<"4", "2">>, <<"1", "0", "0">>),
       MaskLine(MaskB2), MemLine(<<"2", "6">>, <<"1">>) >>

\* a usize with bits above the mask symbols set
HighValue == Shl1(MaskBits + 1) + 75

\* mem[1 = 5
BadMemLine == <<"m", "e", "m", "[", "1", " ", "=", " ", "5">>

FileLines ==
    { MaskLine(MaskA), MaskLine(MaskB1),
      MemLine(<<"8">>, <<"1", "1">>), MemLine(<<"8">>, <<"0">>),
      MemLine(Decimal(HighValue), Decimal(HighValue + 2)),
      BadMemLine,
      MemLine(<<"1">>, Decimal(UsizeMax) \o <<"0">>) }

SeqsUpTo(S, n) == UNION {[1..k -> S] : k \in 0..n}

\* every string of MaskBits symbols over {0, 1, X}
MaskStrings == [1..MaskBits -> {"0", "1", "X"}]

\* a file of one mask line and one assignment, for every mask
MaskFiles ==
    {<<MaskLine(s), MemLine(Decimal(HighValue), Decimal(HighValue + 2))>> : s \in MaskStrings}

Files == {ScenarioA, ScenarioB} \cup SeqsUpTo(FileLines, MaxLines) \cup MaskFiles

----------------------------------------------------------------------------
(* main: read_parsed_lines, then part1, then part2 *)

Init ==
    /\ input \in Files
    /\ pc = "read"
    /\ commands = <<>>
    /\ pos = 0
    /\ machine = Machine_new
    /\ part1_result = None
    /\ part2_result = None
    /\ arg = None
    /\ ret = None

ReadLine ==
    /\ pc = "read"
    /\ Len(commands) < Len(input)
    /\ \E r \in parse_line(input[Len(commands) + 1]) :
          /\ r.tag = "Ok"
          /\ commands' = Append(commands, r.cmd)
    /\ UNCHANGED <<input, pc, pos, machine, part1_result, part2_result, arg, ret>>

ReadError ==
    /\ pc = "read"
    /\ Len(commands) < Len(input)
    /\ \E r \in parse_line(input[Len(commands) + 1]) : r.tag = "Err"
    /\ pc' = "error"
    /\ UNCHANGED <<input, commands, pos, machine, part1_result, part2_result, arg, ret>>

ReadPanic ==
    /\ pc = "read"
    /\ Len(commands) < Len(input)
    /\ \E r \in parse_line(input[Len(commands) + 1]) : r.tag = "Panic"
    /\ pc' = "panic"
    /\ UNCHANGED <<input, commands, pos, machine, part1_result, part2_result, arg, ret>>

ReadDone ==
    /\ pc = "read"
    /\ Len(commands) = Len(input)
    /\ pc' = "part1"
    /\ machine' = Machine_new
    /\ pos' = 0
    /\ UNCHANGED <<input, commands, part1_result, part2_result, arg, ret>>

Part1SetMask ==
    /\ pc = "part1"
    /\ pos < Len(commands)
    /\ commands[pos + 1].kind = "SetMask"
    /\ machine' = [machine EXCEPT !.mask = commands[pos + 1].mask]
    /\ pos' = pos + 1
    /\ UNCHANGED <<input, pc, commands, part1_result, part2_result, arg, ret>>

Part1Assign ==
    /\ pc = "part1"
    /\ pos < Len(commands)
    /\ commands[pos + 1].kind = "Assign"
    /\ machine' = store(machine, commands[pos + 1].address,
                        part1_value(machine.mask, commands[pos + 1].value))
    /\ pos' = pos + 1
    /\ UNCHANGED <<input, pc, commands, part1_result, part2_result, arg, ret>>

\* Ok(machine.sum_values()), printed by main, which then enters part2
Part1Return ==
    /\ pc = "part1"
    /\ pos = Len(commands)
    /\ \E r \in sum_values(machine) :
          /\ part1_result' = r
          /\ pc' = IF r.tag = "Ok" THEN "part2" ELSE "panic"
    /\ machine' = Machine_new
    /\ pos' = 0
    /\ UNCHANGED <<input, commands, part2_result, arg, ret>>

Part2SetMask ==
    /\ pc = "part2"
    /\ pos < Len(commands)
    /\ commands[pos + 1].kind = "SetMask"
    /\ machine' = [machine EXCEPT !.mask = commands[pos + 1].mask]
    /\ pos' = pos + 1
    /\ UNCHANGED <<input, pc, commands, part1_result, part2_result, arg, ret>>

Part2Assign ==
    /\ pc = "part2"
    /\ pos < Len(commands)
    /\ commands[pos + 1].kind = "Assign"
    /\ machine' = part2_assign(machine, commands[pos + 1].address, commands[pos + 1].value)
    /\ pos' = pos + 1
    /\ UNCHANGED <<input, pc, commands, part1_result, part2_result, arg, ret>>

Part2Return ==
    /\ pc = "part2"
    /\ pos = Len(commands)
    /\ \E r \in sum_values(machine) :
          /\ part2_result' = r
          /\ pc' = IF r.tag = "Ok" THEN "done" ELSE "panic"
    /\ UNCHANGED <<input, commands, pos, machine, part1_result, arg, ret>>

Next ==
    \/ ReadLine
    \/ ReadError
    \/ ReadPanic
    \/ ReadDone
    \/ Part1SetMask
    \/ Part1Assign
    \/ Part1Return
    \/ Part2SetMask
    \/ Part2Assign
    \/ Part2Return

Spec == Init /\ [][Next]_vars

----------------------------------------------------------------------------
(* The functions applied on their own: parse_line, Masked::from_str and its *)
(* Display, expand_addresses, and Machine::store / sum_values on a fresh    *)
(* Machine.  arg is the call's input, ret what it returned.                 *)

GoodBodies == {Pad(c, MaskBits - 2) \o <<x, y>> : c \in {"0", "1", "X"}, x \in {"0", "1", "X"}, y \in {"0", "1", "X"}}
BadBodies ==
    {Pad(c, MaskBits - 2) \o <<x, y>> : c \in {"0", "1", "X"}, x \in {"0", "1", "X"}, y \in {"2", "x"}}
    \cup {Pad("X", MaskBits - 1), Pad("X", MaskBits + 1), Pad("0", MaskBits - 1), <<>>,
          <<"Y">> \o Pad("1", MaskBits - 1),
          Pad("0", MaskBits + 1), Pad("0", MaskBits) \o <<"1">>, Pad("1", MaskBits) \o <<"2">>,
          Pad("X", MaskBits + 2) \o <<"1">>}

NumStrings ==
    { <<"0">>, <<"8">>, <<"0", "0", "7">>, Decimal(UsizeMax), Decimal(UsizeMax - 1) \o <<"0">>,
      <<"0", "0">> \o Decimal(UsizeMax),
      <<>>, <<"-", "1">>, <<"+", "1">>, <<"1", "x">>, <<" ", "1">> }

\* digit strings of numbers no usize holds
BigStrings == {Decimal(UsizeMax + 1), Decimal(UsizeMax) \o <<"0">>}

TestLines ==
    {MaskLine(b) : b \in GoodBodies \cup BadBodies}
    \cup {<<"m", "a", "s", "k", " ", "=">> \o b : b \in GoodBodies}
    \cup {<<" ">> \o MaskLine(b) : b \in GoodBodies}
    \cup {MaskLine(b) \o <<" ">> : b \in GoodBodies}
    \cup {MemLine(a, v) : a \in NumStrings, v \in NumStrings}
    \cup {MemLine(a, v) : a \in NumStrings \cup BigStrings, v \in BigStrings}
    \cup {MemLine(a, v) : a \in BigStrings, v \in NumStrings}
    \cup {MemLine(<<"1">>, <<"5">>) \o <<" ">>, <<" ">> \o MemLine(<<"1">>, <<"5">>),
          BadMemLine, <<>>, MemOpen, MaskPrefix,
          <<"m", "e", "m", "[", "1", "]", "=", "5">>,
          <<"M", "E", "M", "[", "1", "]", " ", "=", " ", "5">>}

\* base addresses handed to expand_addresses
Bases == {0, 42, HighValue, UsizeMax}

StoreCalls == SeqsUpTo({7, 8} \X {0, 11, 101}, MaxStores)

UnitArgs ==
    {[fn |-> "parse_line", line |-> l] : l \in TestLines}
    \cup {[fn |-> "from_str", s |-> s] : s \in MaskStrings \cup BadBodies}
    \cup {[fn |-> "expand_addresses", mask |-> m.mask, address |-> a] :
             m \in UNION {from_str(s) : s \in MaskStrings}, a \in Bases}
    \cup {[fn |-> "expand_addresses", mask |-> Machine_new.mask.mask, address |-> a] : a \in Bases}
    \cup {[fn |-> "store", calls |-> c] : c \in StoreCalls}

InitUnit ==
    /\ input = <<>>
    /\ pc = "unit"
    /\ commands = <<>>
    /\ pos = 0
    /\ machine = Machine_new
    /\ part1_result = None
    /\ part2_result = None
    /\ arg \in UnitArgs
    /\ ret = None

CallParseLine ==
    /\ pc = "unit"
    /\ arg.fn = "parse_line"
    /\ ret = None
    /\ ret' \in parse_line(arg.line)
    /\ UNCHANGED <<input, pc, commands, pos, machine, part1_result, part2_result, arg>>

\* s.parse::<Masked>()
CallFromStr ==
    /\ pc = "unit"
    /\ arg.fn = "from_str"
    /\ ret = None
    /\ ret' \in from_str(arg.s)
    /\ UNCHANGED <<input, pc, commands, pos, machine, part1_result, part2_result, arg>>

\* to_string() of the Masked just parsed
CallFmt ==
    /\ pc = "unit"
    /\ arg.fn = "from_str"
    /\ ret.tag = "Ok"
    /\ ret' = [tag |-> "Shown", masked |-> [mask |-> ret.mask, value |-> ret.value],
               s |-> fmt([mask |-> ret.mask, value |-> ret.value])]
    /\ UNCHANGED <<input, pc, commands, pos, machine, part1_result, part2_result, arg>>

CallExpand ==
    /\ pc = "unit"
    /\ arg.fn = "expand_addresses"
    /\ ret = None
    /\ ret' = [tag |-> "Ok", list |-> expand_addresses(arg.mask, arg.address)]
    /\ UNCHANGED <<input, pc, commands, pos, machine, part1_result, part2_result, arg>>

CallStore ==
    /\ pc = "unit"
    /\ arg.fn = "store"
    /\ pos < Len(arg.calls)
    /\ machine' = store(machine, arg.calls[pos + 1][1], arg.calls[pos + 1][2])
    /\ pos' = pos + 1
    /\ UNCHANGED <<input, pc, commands, part1_result, part2_result, arg, ret>>

CallSumValues ==
    /\ pc = "unit"
    /\ arg.fn = "store"
    /\ pos = Len(arg.calls)
    /\ ret = None
    /\ ret' \in sum_values(machine)
    /\ UNCHANGED <<input, pc, commands, pos, machine, part1_result, part2_result, arg>>

NextUnit ==
    \/ CallParseLine
    \/ CallFromStr
    \/ CallFmt
    \/ CallExpand
    \/ CallStore
    \/ CallSumValues

SpecUnit == InitUnit /\ [][NextUnit]_vars

----------------------------------------------------------------------------
(* Properties *)

\* bit b of the number a, by arithmetic
Bit(a, b) == (a \div 2^b) % 2

PopCount(a, width) == Cardinality({b \in 0..(width - 1) : Bit(a, b) = 1})

\* index of the last SetMask among the first n commands, 0 when there is none
LastSetMask(n) ==
    LET S == {j \in 1..n : commands[j].kind = "SetMask"}
    IN IF S = {} THEN 0 ELSE CHOOSE j \in S : \A k \in S : k <= j

\* the mask symbol written for bit b on input line j (a mask line)
SymbolAt(j, b) == input[j][Len(MaskPrefix) + MaskBits - b]

\* C1: in part1, right after an Assign(address, raw) the Machine holds the mask
\* of the most recent SetMask (the initial mask when there is none) and
\* memory[address] = (raw AND (care_mask OR value_bits)) OR value_bits; bit by
\* bit below the mask width, a '0' symbol gives 0, a '1' gives 1 and an 'X'
\* gives the raw value's bit.
C1_Part1MaskedValue ==
    (pc = "part1" /\ pos >= 1 /\ commands[pos].kind = "Assign") =>
        LET c == commands[pos]
            m == machine.mask
            j == LastSetMask(pos)
        IN /\ m = IF j = 0 THEN Machine_new.mask ELSE commands[j].mask
           /\ c.address \in DOMAIN machine.memory
           /\ machine.memory[c.address] = BitOr(BitAnd(c.value, BitOr(m.mask, m.value)), m.value)
           /\ j # 0 =>
                \A b \in 0..(MaskBits - 1) :
                    Bit(machine.memory[c.address], b) =
                        CASE SymbolAt(j, b) = "0" -> 0
                          [] SymbolAt(j, b) = "1" -> 1
                          [] SymbolAt(j, b) = "X" -> Bit(c.value, b)

\* an Assign under a mask with forced ones and forced zeros changed the value
C1_Witness ==
    /\ pc = "part1" /\ pos >= 2
    /\ commands[pos].kind = "Assign"
    /\ LastSetMask(pos) # 0
    /\ \E b \in 0..(MaskBits - 1) : SymbolAt(LastSetMask(pos), b) = "1" /\ Bit(commands[pos].value, b) = 0
    /\ \E b \in 0..(MaskBits - 1) : SymbolAt(LastSetMask(pos), b) = "0" /\ Bit(commands[pos].value, b) = 1
    /\ \E b \in 0..(MaskBits - 1) : SymbolAt(LastSetMask(pos), b) = "X" /\ Bit(commands[pos].value, b) = 1
    /\ machine.memory[commands[pos].address] # commands[pos].value

\* the step of part2 that handles an Assign
Part2AssignStep ==
    /\ pc = "part2" /\ pc' = "part2"
    /\ pos' = pos + 1
    /\ pos < Len(commands)
    /\ commands[pos + 1].kind = "Assign"

\* what a part2 Assign does to memory when the bits of the set floating float:
\* the addresses that agree with base outside floating all hold value, there are
\* 2^|floating| of them, and every other entry is as before
FloatsOver(floating) ==
    LET c == commands[pos + 1]
        base == BitOr(c.address, machine.mask.value)
        Expanded(a) == \A b \in (0..(WordBits - 1)) \ floating : Bit(a, b) = Bit(base, b)
        old == machine.memory
        new == machine'.memory
    IN /\ DOMAIN old \subseteq DOMAIN new
       /\ \A a \in DOMAIN new :
            IF Expanded(a) THEN new[a] = c.value
            ELSE a \in DOMAIN old /\ new[a] = old[a]
       /\ Cardinality({a \in DOMAIN new : Expanded(a)}) = 2^Cardinality(floating)

\* C2 as stated: in part2 an Assign(address, value) writes value at exactly the
\* addresses got from address OR value_bits by floating every bit set in
\* care_mask, 2^popcount(care_mask) of them, and leaves the other entries alone,
\* in every state, the one before any SetMask included.
C2_AsStated ==
    [][Part2AssignStep =>
        FloatsOver({b \in 0..(WordBits - 1) : Bit(machine.mask.mask, b) = 1})]_vars

\* C2 amended: the bits that float are those set in care_mask among the mask's
\* bit positions (0..35 in the source); there are 2^popcount(care_mask AND
\* (2^36 - 1)) addresses written, and a bit of care_mask above them, as the
\* initial mask !0 has, keeps the base address's bit.
C2_Part2FloatsMaskBits ==
    [][Part2AssignStep =>
        FloatsOver({b \in 0..(MaskBits - 1) : Bit(machine.mask.mask, b) = 1})]_vars

\* a part2 Assign after a SetMask wrote several addresses, not all of them, and
\* kept an older entry
C2_Witness ==
    /\ pc = "part2" /\ pos >= 3
    /\ commands[pos].kind = "Assign"
    /\ LastSetMask(pos) # 0
    /\ machine.mask.value # 0
    /\ PopCount(machine.mask.mask, WordBits) \in 1..(MaskBits - 1)
    /\ \E a \in DOMAIN machine.memory : machine.memory[a] # commands[pos].value
    /\ \E a \in DOMAIN machine.memory :
          a # commands[pos].address /\ machine.memory[a] = commands[pos].value

\* C5: in every state of a pass the Machine's mask has no bit set in both
\* care_mask and value_bits, and neither has any parsed SetMask command.
C5_MaskFieldsDisjoint ==
    /\ \A b \in 0..(WordBits - 1) :
          ~(Bit(machine.mask.mask, b) = 1 /\ Bit(machine.mask.value, b) = 1)
    /\ \A j \in 1..Len(commands) :
          commands[j].kind = "SetMask" =>
              \A b \in 0..(WordBits - 1) :
                  ~(Bit(commands[j].mask.mask, b) = 1 /\ Bit(commands[j].mask.value, b) = 1)

\* a pass holds a parsed mask with floating bits and forced ones
C5_Witness ==
    /\ pc \in {"part1", "part2"}
    /\ machine.mask # Machine_new.mask
    /\ machine.mask.mask # 0
    /\ machine.mask.value # 0

\* C6: part1 on scenario A returns 165.
C6_ScenarioA ==
    (input = ScenarioA /\ pc \in {"part2", "done", "panic"}) => part1_result = [tag |-> "Ok", n |-> 165]

C6_Witness == input = ScenarioA /\ pc = "part2" /\ pos = 0 /\ part1_result.tag = "Ok"

\* C7: part2 on scenario B returns 208.
C7_ScenarioB ==
    (input = ScenarioB /\ pc \in {"done", "panic"}) => part2_result = [tag |-> "Ok", n |-> 208]

C7_Witness == input = ScenarioB /\ pc = "done" /\ part2_result.tag = "Ok"

\* the floating bits of a mask: the positions of its X symbols
Floating(mask) == {b \in 0..(MaskBits - 1) : Bit(mask, b) = 1}

\* C3: expand_addresses(mask, base) returns 2^k addresses, k the number of
\* floating bits of the mask, no address twice, each agreeing with base on
\* every bit that does not float.
C3_ExpandCardinality ==
    (arg.fn = "expand_addresses" /\ ret # None) =>
        /\ Len(ret.list) = 2^Cardinality(Floating(arg.mask))
        /\ \A i \in 1..Len(ret.list) : \A j \in 1..Len(ret.list) :
              ret.list[i] = ret.list[j] => i = j
        /\ \A i \in 1..Len(ret.list) :
              \A b \in (0..(WordBits - 1)) \ Floating(arg.mask) :
                  Bit(ret.list[i], b) = Bit(arg.address, b)

\* an expansion over several floating bits, from a base with bits above them
C3_Witness ==
    /\ arg.fn = "expand_addresses" /\ ret # None
    /\ Cardinality(Floating(arg.mask)) \in 2..(MaskBits - 1)
    /\ Len(ret.list) >= 4
    /\ arg.address >= 2^MaskBits

\* C4: for a string s of exactly MaskBits symbols over {0, 1, X}, the Masked
\* parsed from s renders as s, and the j-th symbol from the left is bit
\* MaskBits - j: X sets it in care_mask only, 1 in value_bits only, 0 in neither.
C4_RoundTrip ==
    (arg.fn = "from_str" /\ arg.s \in MaskStrings) =>
        /\ ret # None => ret.tag \in {"Ok", "Shown"}
        /\ ret.tag = "Shown" =>
            /\ ret.s = arg.s
            /\ Len(ret.s) = MaskBits
            /\ \A j \in 1..MaskBits :
                  /\ Bit(ret.masked.mask, MaskBits - j) = (IF arg.s[j] = "X" THEN 1 ELSE 0)
                  /\ Bit(ret.masked.value, MaskBits - j) = (IF arg.s[j] = "1" THEN 1 ELSE 0)

\* a string that is not its own mirror image, holding all three symbols, rendered
C4_Witness ==
    /\ arg.fn = "from_str" /\ arg.s \in MaskStrings
    /\ ret.tag = "Shown"
    /\ arg.s[1] = "X" /\ arg.s[MaskBits] = "0"
    /\ \E j \in 1..MaskBits : arg.s[j] = "1"

\* index of the last of the first n store calls whose key is k
LastCall(k, n) == CHOOSE j \in 1..n : arg.calls[j][1] = k /\ \A i \in (j + 1)..n : arg.calls[i][1] # k

\* sum of the values of the calls j..Len whose address no later call stores again
RECURSIVE SumLatest(_)
SumLatest(j) ==
    IF j > Len(arg.calls) THEN 0
    ELSE (IF \E i \in (j + 1)..Len(arg.calls) : arg.calls[i][1] = arg.calls[j][1]
          THEN 0 ELSE arg.calls[j][2]) + SumLatest(j + 1)

\* C8: after the first pos store calls on a fresh Machine, memory has one entry
\* per address stored, holding the value of the latest store to it, and
\* sum_values returns the sum of those latest values.
C8_OverwriteKeepsLatest ==
    arg.fn = "store" =>
        /\ DOMAIN machine.memory = {arg.calls[j][1] : j \in 1..pos}
        /\ \A k \in DOMAIN machine.memory : machine.memory[k] = arg.calls[LastCall(k, pos)][2]
        /\ ret # None => ret = [tag |-> "Ok", n |-> SumLatest(1)]

\* an address stored twice with different values, then summed
C8_Witness ==
    /\ arg.fn = "store" /\ ret # None
    /\ \E i \in 1..Len(arg.calls) : \E j \in (i + 1)..Len(arg.calls) :
          /\ arg.calls[i][1] = arg.calls[j][1]
          /\ arg.calls[i][2] # arg.calls[j][2]
          /\ arg.calls[i][2] > 0
    /\ Cardinality(DOMAIN machine.memory) = 2

AllDigits(d) == Len(d) >= 1 /\ \A j \in 1..Len(d) : IsDigit(d[j])

\* "mask = " followed by exactly MaskBits symbols from {0, 1, X}
GrammarMask(l) ==
    /\ Len(l) = Len(MaskPrefix) + MaskBits
    /\ \A j \in 1..Len(MaskPrefix) : l[j] = MaskPrefix[j]
    /\ \A j \in (Len(MaskPrefix) + 1)..Len(l) : l[j] \in {"0", "1", "X"}

\* "mem[" digits "] = " digits
GrammarMem(l) ==
    \E n \in 1..Len(l) : \E m \in 1..Len(l) :
        /\ Len(l) = Len(MemOpen) + n + Len(MemMid) + m
        /\ SubSeq(l, 1, Len(MemOpen)) = MemOpen
        /\ AllDigits(SubSeq(l, Len(MemOpen) + 1, Len(MemOpen) + n))
        /\ SubSeq(l, Len(MemOpen) + n + 1, Len(MemOpen) + n + Len(MemMid)) = MemMid
        /\ AllDigits(SubSeq(l, Len(l) - m + 1, Len(l)))

\* the two numeric fields of a line of the second grammar
MemFields(l) ==
    LET n == DigitRunEnd(l, Len(MemOpen) + 1) - (Len(MemOpen) + 1)
    IN << SubSeq(l, Len(MemOpen) + 1, Len(MemOpen) + n),
          SubSeq(l, Len(MemOpen) + n + Len(MemMid) + 1, Len(l)) >>

\* C9: parse_line gives a parse error on a line that matches neither grammar,
\* and exactly one Command of the matching variant on a line that matches one.
C9_NoPartialParse ==
    (arg.fn = "parse_line" /\ ret # None) =>
        /\ GrammarMask(arg.line) => (ret.tag = "Ok" /\ ret.cmd.kind = "SetMask")
        /\ GrammarMem(arg.line) => (ret.tag = "Ok" /\ ret.cmd.kind = "Assign")
        /\ (~GrammarMask(arg.line) /\ ~GrammarMem(arg.line)) => ret.tag = "Err"

\* C10: on a mem line with a numeric field that is no usize, parse_line returns
\* an error value carrying the line.
C10_OverflowIsParseError ==
    (/\ arg.fn = "parse_line" /\ ret # None
     /\ GrammarMem(arg.line)
     /\ \E f \in 1..2 : parse_usize(MemFields(arg.line)[f]).tag = "Err") =>
        ret = [tag |-> "Err", line |-> arg.line]

====
